---- MODULE Spec2Model ----
(***************************************************************************)
(* A model of png-palette's PNGPaletteImage (src/src/PNGPaletteImage.ts):  *)
(* the palette / pixel-index image object, the PNG chunk walk with its CRC *)
(* check, the scanline filter reconstruction, the encoder and the RGBA     *)
(* quantizer.                                                              *)
(*                                                                         *)
(* Byte buffers (Uint8Array) are sequences of numbers in 0..255.  The      *)
(* source indexes from 0; At(s, i) reads source index i.                   *)
(***************************************************************************)
EXTENDS Integers, Sequences, FiniteSets, TLC

\* img:    the PNGPaletteImage a caller holds
\* last:   the caller's last call on img: its name, arguments, result, and the
\*         image as it was before the call
\* bytes:  a PNG byte buffer (encoded, or assembled chunk by chunk)
\* result: the Result the last static factory call returned
\* input:  the argument of the static factory under study
VARIABLES img, last, bytes, result, input

vars == <<img, last, bytes, result, input>>

(***************************************************************************)
(* Bounds of the model.                                                    *)
(***************************************************************************)
MaxDim == 2
MaxCol == 2
MaxOps == 2

(***************************************************************************)
(* Typed-array primitives.                                                 *)
(***************************************************************************)
Byte == 0..255

\* The value read for an index outside a typed array (JavaScript undefined).
Undefined == -1

At(s, i) == IF i >= 0 /\ i < Len(s) THEN s[i + 1] ELSE Undefined

\* A store into a Uint8Array: the value modulo 256, undefined (NaN) as 0.
ToUint8(v) == IF v = Undefined THEN 0 ELSE v % 256

\* s[i] = v on a Uint8Array: a store outside the array is dropped.
Put(s, i, v) == IF i >= 0 /\ i < Len(s) THEN [s EXCEPT ![i + 1] = ToUint8(v)] ELSE s

\* new Uint8Array(n)
Zeros(n) == [k \in 1..n |-> 0]

\* Uint8Array.prototype.subarray(from, to), both clamped to the array.
Clamp(s, i) == IF i < 0 THEN 0 ELSE IF i > Len(s) THEN Len(s) ELSE i

subarray(s, from, to) ==
    IF Clamp(s, to) <= Clamp(s, from) THEN <<>>
    ELSE SubSeq(s, Clamp(s, from) + 1, Clamp(s, to))

\* target.set(src, offset), for a source that fits.
SetAt(target, src, offset) ==
    [k \in 1..Len(target) |->
        IF k > offset /\ k <= offset + Len(src) THEN src[k - offset] ELSE target[k]]

RECURSIVE Flatten(_)
Flatten(arrays) ==
    IF arrays = <<>> THEN <<>> ELSE Head(arrays) \o Flatten(Tail(arrays))

\* DataView.getUint32(pos, false) / setUint32(.., false): big-endian.  Numbers
\* of the model stay below 2^30 (the top byte of a 32-bit field is below 64).
getUint32(s, pos) ==
    (At(s, pos) * 16777216) + (At(s, pos + 1) * 65536) + (At(s, pos + 2) * 256) + At(s, pos + 3)

U32Bytes(n) ==
    << (n \div 16777216) % 256, (n \div 65536) % 256, (n \div 256) % 256, n % 256 >>

(***************************************************************************)
(* CRC-32 (crc-32's CRC32.buf): reflected polynomial EDB88320, table       *)
(* driven, initial value and final xor FFFFFFFF.  A 32-bit value is the    *)
(* tuple of its four bytes, most significant first, which is also the      *)
(* order setInt32(.., false) writes and getInt32(.., false) reads.         *)
(***************************************************************************)
RECURSIVE XorBits(_, _)
XorBits(a, b) ==
    IF a = 0 THEN b
    ELSE IF b = 0 THEN a
    ELSE (((a % 2) + (b % 2)) % 2) + (2 * XorBits(a \div 2, b \div 2))

XorNibble == [a \in 0..15 |-> [b \in 0..15 |-> XorBits(a, b)]]

Xor8(a, b) == XorNibble[a % 16][b % 16] + (16 * XorNibble[a \div 16][b \div 16])

Xor32(a, b) == <<Xor8(a[1], b[1]), Xor8(a[2], b[2]), Xor8(a[3], b[3]), Xor8(a[4], b[4])>>

CrcPoly == <<237, 184, 131, 32>>

ShiftRight1(c) ==
    << c[1] \div 2,
       (c[2] \div 2) + (128 * (c[1] % 2)),
       (c[3] \div 2) + (128 * (c[2] % 2)),
       (c[4] \div 2) + (128 * (c[3] % 2)) >>

RECURSIVE CrcShift(_, _)
CrcShift(c, n) ==
    IF n = 0 THEN c
    ELSE CrcShift(IF c[4] % 2 = 1 THEN Xor32(ShiftRight1(c), CrcPoly) ELSE ShiftRight1(c),
                  n - 1)

CrcTable == [n \in 0..255 |-> CrcShift(<<0, 0, 0, n>>, 8)]

\* One byte of the table-driven loop.
CrcStep(c, byte) == Xor32(CrcTable[Xor8(c[4], byte)], <<0, c[1], c[2], c[3]>>)

\* The loop over s[lo..hi], left to right.  (The range is split in halves, and
\* the first half's value is computed before the second half starts, so that
\* the evaluation nests to the logarithm of the length, not the length.)
RECURSIVE CrcUpdate(_, _, _, _)
CrcUpdate(c, s, lo, hi) ==
    IF lo > hi THEN c
    ELSE IF lo = hi THEN CrcStep(c, s[lo])
    ELSE LET half == CrcUpdate(c, s, lo, (lo + hi) \div 2)
         IN  IF Len(half) = 4 THEN CrcUpdate(half, s, ((lo + hi) \div 2) + 1, hi) ELSE half

CRC32buf(s) ==
    Xor32(CrcUpdate(<<255, 255, 255, 255>>, s, 1, Len(s)), <<255, 255, 255, 255>>)

(***************************************************************************)
(* pako.deflate / pako.inflate: the zlib container.  deflate is modelled   *)
(* by the stored-block encoding of its input (header 78 01, one final      *)
(* stored block with LEN and its complement, the data, Adler-32);          *)
(* inflate accepts exactly such streams and fails on any other.            *)
(***************************************************************************)
AdlerStep(ab, byte) ==
    << (ab[1] + byte) % 65521, (ab[2] + ((ab[1] + byte) % 65521)) % 65521 >>

RECURSIVE AdlerSum(_, _, _, _)
AdlerSum(ab, s, lo, hi) ==
    IF lo > hi THEN ab
    ELSE IF lo = hi THEN AdlerStep(ab, s[lo])
    ELSE LET half == AdlerSum(ab, s, lo, (lo + hi) \div 2)
         IN  IF Len(half) = 2 THEN AdlerSum(half, s, ((lo + hi) \div 2) + 1, hi) ELSE half

\* The checksum as its four bytes, most significant first.
Adler32(s) ==
    LET ab == AdlerSum(<<1, 0>>, s, 1, Len(s))
    IN  <<ab[2] \div 256, ab[2] % 256, ab[1] \div 256, ab[1] % 256>>

deflate(data) ==
    <<120, 1, 1, Len(data) % 256, Len(data) \div 256,
      255 - (Len(data) % 256), 255 - (Len(data) \div 256)>>
    \o data \o Adler32(data)

\* What the model keeps for an inflate that throws.
InflateFailed == <<Undefined>>

inflate(z) ==
    IF Len(z) < 11 THEN InflateFailed
    ELSE LET n == z[4] + (256 * z[5])
         IN  IF /\ z[1] = 120 /\ z[2] = 1 /\ z[3] = 1
                /\ z[6] = 255 - z[4] /\ z[7] = 255 - z[5]
                /\ Len(z) = 11 + n
                /\ SubSeq(z, 8 + n, 11 + n) = Adler32(SubSeq(z, 8, 7 + n))
             THEN SubSeq(z, 8, 7 + n)
             ELSE InflateFailed

(***************************************************************************)
(* Results (neverthrow's ok / err) and exceptions.  A result is a record   *)
(* of its kind, the error message with the value the message embeds (the   *)
(* chunk type, the offending index), and the value of an ok.               *)
(***************************************************************************)
NoValue == <<>>

Ok(v) == [kind |-> "ok", error |-> "", ctx |-> <<>>, value |-> v]

Err(msg, c) == [kind |-> "err", error |-> msg, ctx |-> c, value |-> NoValue]

\* An exception that leaves the call: no Result is returned.
Thrown(msg) == [kind |-> "throw", error |-> msg, ctx |-> <<>>, value |-> NoValue]

(***************************************************************************)
(* The image object.                                                       *)
(***************************************************************************)
RGBA(r, g, b, a) == [r |-> r, g |-> g, b |-> b, a |-> a]

PNGPaletteImage(width, height, maxColors) ==
    [ width     |-> width,
      height    |-> height,
      maxColors |-> maxColors,
      pixels    |-> Zeros(width * height),
      palette   |-> [k \in 1..(maxColors * 4) |-> IF k % 4 = 0 THEN 255 ELSE 0] ]

getPalette(im) ==
    [index \in 0..(im.maxColors - 1) |->
        RGBA(At(im.palette, index * 4), At(im.palette, (index * 4) + 1),
             At(im.palette, (index * 4) + 2), At(im.palette, (index * 4) + 3))]

setPalette(im, newPalette) ==
    IF Len(im.palette) # Len(newPalette)
    THEN [res |-> Err("Invalid length of new color palette", <<>>), img |-> im]
    ELSE [res |-> Ok(NoValue),
          img |-> [im EXCEPT !.palette = SetAt(im.palette, newPalette, 0)]]

\* A variant that also rejects a list of exactly maxColors colours.
assignPalette_rejectsFull(im, colors) ==
    IF Len(colors) >= im.maxColors
    THEN [res |-> Err("Too many colors", <<Len(colors), im.maxColors>>), img |-> im]
    ELSE [res |-> Ok(NoValue),
          img |-> [im EXCEPT !.palette =
                    [k \in 1..Len(im.palette) |->
                        IF (k - 1) \div 4 < Len(colors)
                        THEN LET c == colors[((k - 1) \div 4) + 1]
                             IN  ToUint8(CASE (k - 1) % 4 = 0 -> c.r
                                           [] (k - 1) % 4 = 1 -> c.g
                                           [] (k - 1) % 4 = 2 -> c.b
                                           [] OTHER -> c.a)
                        ELSE im.palette[k]]]]

\* colors is a sequence of RGBA records; source index i is colors[i + 1].
assignPalette(im, colors) ==
    IF Len(colors) > im.maxColors
    THEN [res |-> Err("Too many colors", <<Len(colors), im.maxColors>>), img |-> im]
    ELSE [res |-> Ok(NoValue),
          img |-> [im EXCEPT !.palette =
                    [k \in 1..Len(im.palette) |->
                        IF (k - 1) \div 4 < Len(colors)
                        THEN LET c == colors[((k - 1) \div 4) + 1]
                             IN  ToUint8(CASE (k - 1) % 4 = 0 -> c.r
                                           [] (k - 1) % 4 = 1 -> c.g
                                           [] (k - 1) % 4 = 2 -> c.b
                                           [] OTHER -> c.a)
                        ELSE im.palette[k]]]]

getImageData(im) ==
    [k \in 1..(im.width * im.height * 4) |->
        IF (k - 1) \div 4 < Len(im.pixels)
        THEN ToUint8(At(im.palette, (im.pixels[((k - 1) \div 4) + 1] * 4) + ((k - 1) % 4)))
        ELSE 0]

\* Returns the image's own buffer, not a copy.
getPixels(im) == im.pixels

\* A variant that accepts the index maxColors.
setPaletteColor_inclusive(im, index, r, g, b, a) ==
    IF index < 0 \/ index > im.maxColors
    THEN [res |-> Err("Palette index out of bounds", <<index>>), img |-> im]
    ELSE [res |-> Ok(NoValue),
          img |-> [im EXCEPT !.palette =
                    Put(Put(Put(Put(im.palette, index * 4, r), (index * 4) + 1, g),
                            (index * 4) + 2, b), (index * 4) + 3, a)]]

setPaletteColor(im, index, r, g, b, a) ==
    IF index < 0 \/ index >= im.maxColors
    THEN [res |-> Err("Palette index out of bounds", <<index>>), img |-> im]
    ELSE [res |-> Ok(NoValue),
          img |-> [im EXCEPT !.palette =
                    Put(Put(Put(Put(im.palette, index * 4, r), (index * 4) + 1, g),
                            (index * 4) + 2, b), (index * 4) + 3, a)]]

getPaletteColor(im, index) ==
    IF index < 0 \/ index >= im.maxColors
    THEN Err("Palette index out of bounds", <<index>>)
    ELSE Ok(RGBA(At(im.palette, index * 4), At(im.palette, (index * 4) + 1),
                 At(im.palette, (index * 4) + 2), At(im.palette, (index * 4) + 3)))

\* A variant that checks the colour index against 256, not maxColors.
setPixelPaletteIndex_byteRange(im, x, y, colorIndex) ==
    IF colorIndex < 0 \/ colorIndex >= 256
    THEN [res |-> Err("Palette index out of bounds", <<colorIndex>>), img |-> im]
    ELSE IF x < 0 \/ x >= im.width
    THEN [res |-> Err("X index out of bounds", <<x>>), img |-> im]
    ELSE IF y < 0 \/ y >= im.height
    THEN [res |-> Err("Y index out of bounds", <<y>>), img |-> im]
    ELSE [res |-> Ok(NoValue),
          img |-> [im EXCEPT !.pixels = Put(im.pixels, (y * im.width) + x, colorIndex)]]

setPixelPaletteIndex(im, x, y, colorIndex) ==
    IF colorIndex < 0 \/ colorIndex >= im.maxColors
    THEN [res |-> Err("Palette index out of bounds", <<colorIndex>>), img |-> im]
    ELSE IF x < 0 \/ x >= im.width
    THEN [res |-> Err("X index out of bounds", <<x>>), img |-> im]
    ELSE IF y < 0 \/ y >= im.height
    THEN [res |-> Err("Y index out of bounds", <<y>>), img |-> im]
    ELSE [res |-> Ok(NoValue),
          img |-> [im EXCEPT !.pixels = Put(im.pixels, (y * im.width) + x, colorIndex)]]

getPixelPaletteIndex(im, x, y) ==
    IF x < 0 \/ x >= im.width THEN Err("X index out of bounds", <<x>>)
    ELSE IF y < 0 \/ y >= im.height THEN Err("Y index out of bounds", <<y>>)
    ELSE Ok(At(im.pixels, (y * im.width) + x))

(***************************************************************************)
(* The encoder.                                                            *)
(***************************************************************************)
Signature == <<137, 80, 78, 71, 13, 10, 26, 10>>

IHDR == <<73, 72, 68, 82>>
PLTE == <<80, 76, 84, 69>>
tRNS == <<116, 82, 78, 83>>
IDAT == <<73, 68, 65, 84>>
IEND == <<73, 69, 78, 68>>

createChunk(type, data) ==
    U32Bytes(Len(data)) \o type \o data \o CRC32buf(type \o data)

concat(arrays) == Flatten(arrays)

headerData(im) == U32Bytes(im.width) \o U32Bytes(im.height) \o <<8, 3, 0, 0, 0>>

\* A variant that always writes a full table of 256 entries.
paletteData_full(im) ==
    [k \in 1..(256 * 3) |->
        ToUint8(At(im.palette, (((k - 1) \div 3) * 4) + ((k - 1) % 3)))]

paletteData(im) ==
    [k \in 1..(im.maxColors * 3) |->
        ToUint8(At(im.palette, (((k - 1) \div 3) * 4) + ((k - 1) % 3)))]

\* A variant that writes every entry as opaque.
transparencyData_opaque(im) == [k \in 1..im.maxColors |-> 255]

transparencyData(im) ==
    [k \in 1..im.maxColors |-> ToUint8(At(im.palette, ((k - 1) * 4) + 3))]

\* Every row: the filter tag 0, then the row's pixels unchanged.
imageDataChunkData(im) ==
    [k \in 1..(im.height * (im.width + 1)) |->
        IF (k - 1) % (im.width + 1) = 0 THEN 0
        ELSE im.pixels[(((k - 1) \div (im.width + 1)) * im.width) + ((k - 1) % (im.width + 1))]]

encodeToPngBytes(im) ==
    concat(<< Signature,
              createChunk(IHDR, headerData(im)),
              createChunk(PLTE, paletteData(im)),
              createChunk(tRNS, transparencyData(im)),
              createChunk(IDAT, deflate(imageDataChunkData(im))),
              createChunk(IEND, <<>>) >>)

(***************************************************************************)
(* The decoder.                                                            *)
(***************************************************************************)
isValidPngSignature(b) ==
    /\ At(b, 0) = 137 /\ At(b, 1) = 80 /\ At(b, 2) = 78 /\ At(b, 3) = 71
    /\ At(b, 4) = 13 /\ At(b, 5) = 10 /\ At(b, 6) = 26 /\ At(b, 7) = 10

\* A variant that tests the colour type before the bit depth.
parseIhdr_colourFirst(b, pos) ==
    IF pos + 18 > Len(b) THEN Thrown("RangeError: Offset is outside the bounds of the DataView")
    ELSE LET width == getUint32(b, pos + 8)
             height == getUint32(b, pos + 12)
             bitDepth == At(b, pos + 16)
             colorType == At(b, pos + 17)
         IN  IF colorType # 3 THEN Err("Only indexed color (3) is supported.", <<>>)
             ELSE IF bitDepth # 8 THEN Err("Unsupported bit depth", <<bitDepth>>)
             ELSE Ok([width |-> width, height |-> height])


\* The four DataView reads are not checked against the chunk's length: they
\* read whatever follows pos, and a read past the end of the view throws
\* a RangeError.
parseIhdr(b, pos) ==
    IF pos + 18 > Len(b) THEN Thrown("RangeError: Offset is outside the bounds of the DataView")
    ELSE LET width == getUint32(b, pos + 8)
             height == getUint32(b, pos + 12)
             bitDepth == At(b, pos + 16)
             colorType == At(b, pos + 17)
         IN  IF bitDepth # 8 THEN Err("Unsupported bit depth", <<bitDepth>>)
             ELSE IF colorType # 3 THEN Err("Only indexed color (3) is supported.", <<>>)
             ELSE Ok([width |-> width, height |-> height])

PaletteSize == 256

\* i runs while i < data.length / 3, a division that is not rounded, so a
\* last partial triple is read too, its missing bytes as undefined (stored 0).
parsePlte(data) ==
    [k \in 1..(PaletteSize * 4) |->
        IF (k - 1) % 4 = 3 THEN 255
        ELSE IF ((k - 1) \div 4) * 3 < Len(data)
        THEN ToUint8(At(data, (((k - 1) \div 4) * 3) + ((k - 1) % 4)))
        ELSE 0]

\* A variant that also resets the alphas the payload does not cover.
applyTrns_resetsRest(palette, data) ==
    [k \in 1..Len(palette) |->
        IF (k - 1) % 4 = 3
        THEN (IF (k - 1) \div 4 < Len(data) THEN data[((k - 1) \div 4) + 1] ELSE 0)
        ELSE palette[k]]

\* palette[i * 4 + 3] = data[i] for every i < data.length.
applyTrns(palette, data) ==
    [k \in 1..Len(palette) |->
        IF (k - 1) % 4 = 3 /\ (k - 1) \div 4 < Len(data)
        THEN data[((k - 1) \div 4) + 1]
        ELSE palette[k]]

\* The palette variable before any PLTE chunk (undefined).
NoPalette == <<>>

\* A variant without the palette check.
walkEnd_anyPalette(width, height, palette, imageDataChunks) ==
    IF width = 0 \/ height = 0 THEN Err("Missing IHDR", <<>>)
    ELSE Ok([width |-> width, height |-> height, palette |-> palette,
             imageDataChunks |-> imageDataChunks])

\* The checks after the loop.
walkEnd(width, height, palette, imageDataChunks) ==
    IF width = 0 \/ height = 0 THEN Err("Missing IHDR", <<>>)
    ELSE IF palette = NoPalette THEN Err("Missing palette", <<>>)
    ELSE Ok([width |-> width, height |-> height, palette |-> palette,
             imageDataChunks |-> imageDataChunks])

\* A variant in which a later PLTE keeps the alphas of the table before it.
replacePalette_keepsAlpha(palette, data) ==
    IF palette = NoPalette THEN parsePlte(data)
    ELSE [k \in 1..(PaletteSize * 4) |->
             IF (k - 1) % 4 = 3 THEN palette[k] ELSE parsePlte(data)[k]]

\* palette = this.parsePlte(data): the table built so far is dropped.
replacePalette(palette, data) == parsePlte(data)

\* A variant in which no chunk type ends the walk.
endsWalk_never(type) == FALSE

\* type === "IEND": break.
endsWalk(type) == type = IEND

\* A variant that trusts every stored CRC.
crcMatches_unchecked(b, pos, length) == TRUE

\* crcExpected === crcActual: the four bytes stored after the payload against
\* CRC-32 of type and payload.
crcMatches(b, pos, length) ==
    subarray(b, pos + 8 + length, pos + 12 + length)
        = CRC32buf(subarray(b, pos + 4, pos + 8 + length))

RECURSIVE chunkLoop(_, _, _, _, _, _)
chunkLoop(b, pos, width, height, palette, imageDataChunks) ==
    IF ~(pos < Len(b)) \/ pos + 8 > Len(b)
    THEN walkEnd(width, height, palette, imageDataChunks)
    ELSE LET length == getUint32(b, pos)
             type == subarray(b, pos + 4, pos + 8)
         IN  IF pos + 12 + length > Len(b)
             THEN Err("Chunk exceeds file bounds", type)
             ELSE LET data == subarray(b, pos + 8, pos + 8 + length)
                      next == pos + 12 + length
                  IN  IF ~crcMatches(b, pos, length)
                      THEN Err("CRC mismatch in chunk", type)
                      ELSE IF type = IHDR
                      THEN LET res == parseIhdr(b, pos)
                           IN  IF res.kind # "ok" THEN res
                               ELSE chunkLoop(b, next, res.value.width, res.value.height,
                                              palette, imageDataChunks)
                      ELSE IF type = PLTE
                      THEN chunkLoop(b, next, width, height, replacePalette(palette, data),
                                     imageDataChunks)
                      ELSE IF type = tRNS
                      THEN IF palette = NoPalette
                           THEN Err("tRNS before PLTE", <<>>)
                           ELSE chunkLoop(b, next, width, height, applyTrns(palette, data),
                                          imageDataChunks)
                      ELSE IF type = IDAT
                      THEN chunkLoop(b, next, width, height, palette,
                                     Append(imageDataChunks, data))
                      ELSE IF endsWalk(type)
                      THEN walkEnd(width, height, palette, imageDataChunks)
                      ELSE chunkLoop(b, next, width, height, palette, imageDataChunks)

parsePngChunks(b) == chunkLoop(b, 8, 0, 0, NoPalette, <<>>)

\* A variant whose comparison of left with upperLeft is strict, so that a tie
\* between them does not go to left.
paethPredictor_strict(left, above, upperLeft) ==
    LET p == (left + above) - upperLeft
        Abs(v) == IF v < 0 THEN -v ELSE v
        pLeft == Abs(p - left)
        pAbove == Abs(p - above)
        pUpperLeft == Abs(p - upperLeft)
    IN  IF pLeft <= pAbove /\ pLeft < pUpperLeft THEN left
        ELSE IF pAbove <= pUpperLeft THEN above
        ELSE upperLeft

paethPredictor(left, above, upperLeft) ==
    LET p == (left + above) - upperLeft
        Abs(v) == IF v < 0 THEN -v ELSE v
        pLeft == Abs(p - left)
        pAbove == Abs(p - above)
        pUpperLeft == Abs(p - upperLeft)
    IN  IF pLeft <= pAbove /\ pLeft <= pUpperLeft THEN left
        ELSE IF pAbove <= pUpperLeft THEN above
        ELSE upperLeft

\* A variant whose Average rounds the half up.
reconstruct_roundUp(filterType, raw, left, above, upperLeft) ==
    CASE filterType = 0 -> raw
      [] filterType = 1 -> (raw + left) % 256
      [] filterType = 2 -> (raw + above) % 256
      [] filterType = 3 -> (raw + ((left + above + 1) \div 2)) % 256
      [] filterType = 4 -> (raw + paethPredictor(left, above, upperLeft)) % 256
      [] OTHER -> Undefined

\* One pixel of the reconstruction loop: the value stored at (x, y), or
\* Undefined for a filter type the switch does not know.
reconstruct(filterType, raw, left, above, upperLeft) ==
    CASE filterType = 0 -> raw
      [] filterType = 1 -> (raw + left) % 256
      [] filterType = 2 -> (raw + above) % 256
      [] filterType = 3 -> (raw + ((left + above) \div 2)) % 256
      [] filterType = 4 -> (raw + paethPredictor(left, above, upperLeft)) % 256
      [] OTHER -> Undefined

\* The two nested loops, k = y * width + x.
RECURSIVE unfilterLoop(_, _, _, _, _)
unfilterLoop(inflated, width, height, pixels, k) ==
    IF k >= width * height THEN Ok(pixels)
    ELSE LET y == k \div width
             x == k % width
             stride == width + 1
             filterType == At(inflated, y * stride)
             raw == At(inflated, (y * stride) + 1 + x)
             left == IF x > 0 THEN At(pixels, ((y * width) + x) - 1) ELSE 0
             above == IF y > 0 THEN At(pixels, ((y - 1) * width) + x) ELSE 0
             upperLeft == IF x > 0 /\ y > 0 THEN At(pixels, (((y - 1) * width) + x) - 1) ELSE 0
             val == reconstruct(filterType, raw, left, above, upperLeft)
         IN  IF val = Undefined THEN Err("Unknown filter type", <<filterType>>)
             ELSE unfilterLoop(inflated, width, height, Put(pixels, k, val), k + 1)

\* From the inflated stream on.
decodeInflated(im, inflated) ==
    IF Len(inflated) < im.height * (im.width + 1)
    THEN Err("Decompressed data size is too small", <<>>)
    ELSE LET res == unfilterLoop(inflated, im.width, im.height, im.pixels, 0)
         IN  IF res.kind # "ok" THEN res ELSE Ok([im EXCEPT !.pixels = res.value])

decodePngImageData(im, imageDataChunks) ==
    LET combined == Flatten(imageDataChunks)
        inflated == inflate(combined)
    IN  IF inflated = InflateFailed THEN Err("Failed to decompress IDAT chunks", <<>>)
        ELSE decodeInflated(im, inflated)

fromPngBytes(b) ==
    IF ~isValidPngSignature(b) THEN Err("Not a PNG file signature", <<>>)
    ELSE LET parseResult == parsePngChunks(b)
         IN  IF parseResult.kind # "ok" THEN parseResult
             ELSE decodePngImageData(
                    [PNGPaletteImage(parseResult.value.width, parseResult.value.height, 256)
                        EXCEPT !.palette = parseResult.value.palette],
                    parseResult.value.imageDataChunks)

(***************************************************************************)
(* The quantizer.                                                          *)
(***************************************************************************)
\* minDistance starts at Infinity: above every distance (at most 4 * 255^2).
Infinity == 1073741824

Square(v) == v * v

\* A variant in which a later entry at the same distance replaces the best.
nearestStep_lastWins(st, paletteColors, c, j) ==
    LET p == paletteColors[j + 1]
        dist == Square(c.r - p.r) + Square(c.g - p.g)
                + Square(c.b - p.b) + Square(c.a - p.a)
    IN  IF dist <= st[2] THEN <<j, dist>> ELSE st

\* One iteration of the search for the closest palette colour; st is
\* <<bestIndex, minDistance>>.
nearestStep(st, paletteColors, c, j) ==
    LET p == paletteColors[j + 1]
        dist == Square(c.r - p.r) + Square(c.g - p.g)
                + Square(c.b - p.b) + Square(c.a - p.a)
    IN  IF dist < st[2] THEN <<j, dist>> ELSE st

\* The iterations j = lo .. hi, in order (split in halves, as CrcUpdate).
RECURSIVE nearestLoop(_, _, _, _, _)
nearestLoop(st, paletteColors, c, lo, hi) ==
    IF lo > hi THEN st
    ELSE IF lo = hi THEN nearestStep(st, paletteColors, c, lo)
    ELSE LET half == nearestLoop(st, paletteColors, c, lo, (lo + hi) \div 2)
         IN  IF Len(half) = 2
             THEN nearestLoop(half, paletteColors, c, ((lo + hi) \div 2) + 1, hi)
             ELSE half

nearestIndex(paletteColors, c) ==
    nearestLoop(<<0, Infinity>>, paletteColors, c, 0, Len(paletteColors) - 1)[1]

\* The map key (r << 24) | (g << 16) | (b << 8) | a, as its four bytes.
Packed(r, g, b, a) == <<r, g, b, a>>

\* The loop's variables before the first pixel; failed is the early return.
quantStart(n) ==
    [ colorsMap |-> <<>>, paletteColors |-> <<>>, pixelIndices |-> Zeros(n),
      failed |-> FALSE ]

\* A variant whose capacity test lets a 257th colour in.
quantStep_capacity257(st, rgba, quantize, i) ==
    LET r == At(rgba, i * 4)
        g == At(rgba, (i * 4) + 1)
        b == At(rgba, (i * 4) + 2)
        a == At(rgba, (i * 4) + 3)
        packed == Packed(r, g, b, a)
    IN  IF st.failed THEN st
        ELSE IF packed \notin DOMAIN st.colorsMap
        THEN IF Len(st.paletteColors) > 256
             THEN IF quantize
                  THEN [st EXCEPT !.pixelIndices =
                          Put(@, i, nearestIndex(st.paletteColors, RGBA(r, g, b, a)))]
                  ELSE [st EXCEPT !.failed = TRUE]
             ELSE [st EXCEPT
                     !.colorsMap = @ @@ (packed :> Len(st.paletteColors)),
                     !.paletteColors = Append(@, RGBA(r, g, b, a)),
                     !.pixelIndices = Put(@, i, Len(st.paletteColors))]
        ELSE [st EXCEPT !.pixelIndices = Put(@, i, st.colorsMap[packed])]

\* A variant that never records a colour in the map.
quantStep_noMapSet(st, rgba, quantize, i) ==
    LET r == At(rgba, i * 4)
        g == At(rgba, (i * 4) + 1)
        b == At(rgba, (i * 4) + 2)
        a == At(rgba, (i * 4) + 3)
        packed == Packed(r, g, b, a)
    IN  IF st.failed THEN st
        ELSE IF packed \notin DOMAIN st.colorsMap
        THEN IF Len(st.paletteColors) >= 256
             THEN IF quantize
                  THEN [st EXCEPT !.pixelIndices =
                          Put(@, i, nearestIndex(st.paletteColors, RGBA(r, g, b, a)))]
                  ELSE [st EXCEPT !.failed = TRUE]
             ELSE [st EXCEPT
                     !.colorsMap = @,
                     !.paletteColors = Append(@, RGBA(r, g, b, a)),
                     !.pixelIndices = Put(@, i, Len(st.paletteColors))]
        ELSE [st EXCEPT !.pixelIndices = Put(@, i, st.colorsMap[packed])]

\* One iteration of the pixel loop.
quantStep(st, rgba, quantize, i) ==
    LET r == At(rgba, i * 4)
        g == At(rgba, (i * 4) + 1)
        b == At(rgba, (i * 4) + 2)
        a == At(rgba, (i * 4) + 3)
        packed == Packed(r, g, b, a)
    IN  IF st.failed THEN st
        ELSE IF packed \notin DOMAIN st.colorsMap
        THEN IF Len(st.paletteColors) >= 256
             THEN IF quantize
                  THEN [st EXCEPT !.pixelIndices =
                          Put(@, i, nearestIndex(st.paletteColors, RGBA(r, g, b, a)))]
                  ELSE [st EXCEPT !.failed = TRUE]
             ELSE [st EXCEPT
                     !.colorsMap = @ @@ (packed :> Len(st.paletteColors)),
                     !.paletteColors = Append(@, RGBA(r, g, b, a)),
                     !.pixelIndices = Put(@, i, Len(st.paletteColors))]
        ELSE [st EXCEPT !.pixelIndices = Put(@, i, st.colorsMap[packed])]

\* The iterations i = lo .. hi, in order (split in halves, as CrcUpdate).
RECURSIVE quantLoop(_, _, _, _, _)
quantLoop(st, rgba, quantize, lo, hi) ==
    IF lo > hi THEN st
    ELSE IF lo = hi THEN quantStep(st, rgba, quantize, lo)
    ELSE LET half == quantLoop(st, rgba, quantize, lo, (lo + hi) \div 2)
         IN  IF half.failed \in BOOLEAN
             THEN quantLoop(half, rgba, quantize, ((lo + hi) \div 2) + 1, hi)
             ELSE half

fromRgbaBytes(rgba, width, height, quantize) ==
    IF Len(rgba) # width * height * 4 THEN Err("Invalid RGBA buffer length", <<>>)
    ELSE LET loop == quantLoop(quantStart(width * height), rgba, quantize,
                               0, (width * height) - 1)
         IN  IF loop.failed
             THEN Err("Image has too many unique colors", <<Len(loop.paletteColors) + 1>>)
             ELSE LET assignResult ==
                          assignPalette(PNGPaletteImage(width, height, 256),
                                        loop.paletteColors)
                  IN  IF assignResult.res.kind # "ok" THEN assignResult.res
                      ELSE Ok([assignResult.img EXCEPT
                                 !.pixels = SetAt(@, loop.pixelIndices, 0)])

(***************************************************************************)
(* Values the unused variables of a specification keep.                    *)
(***************************************************************************)
NoImage == PNGPaletteImage(0, 0, 0)

NoCall == [op |-> "none", args |-> <<>>, res |-> Ok(NoValue), pre |-> NoImage]

NoResult == [kind |-> "none", error |-> "", ctx |-> <<>>, value |-> NoValue]

NoInput == <<>>

Call(op, args, res, pre) == [op |-> op, args |-> args, res |-> res, pre |-> pre]

(***************************************************************************)
(* SpecApi: a caller constructs an image and calls its public methods.     *)
(***************************************************************************)
\* Palette colours a caller passes.
Colors == { RGBA(255, 0, 0, 128), RGBA(7, 8, 9, 255) }

\* Bytes a caller writes into a buffer it was handed.
WrittenBytes == { 5, 255 }

Calls == IF last.op = "none" THEN 0 ELSE last.args[1]

InitApi ==
    /\ \E w \in 1..MaxDim, h \in 1..MaxDim, m \in 1..MaxCol :
          img = PNGPaletteImage(w, h, m)
    /\ last = NoCall
    /\ bytes = <<>>
    /\ result = NoResult
    /\ input = NoInput

Idle == UNCHANGED <<bytes, result, input>>

\* The first argument recorded for a call is its number.
SetPaletteColor ==
    /\ Calls < MaxOps
    /\ \E index \in -1..img.maxColors, c \in Colors :
          LET r == setPaletteColor(img, index, c.r, c.g, c.b, c.a)
          IN  /\ img' = r.img
              /\ last' = Call("setPaletteColor", <<Calls + 1, index, c>>, r.res, img)
    /\ Idle

GetPaletteColor ==
    /\ Calls < MaxOps
    /\ \E index \in -1..img.maxColors :
          last' = Call("getPaletteColor", <<Calls + 1, index>>, getPaletteColor(img, index), img)
    /\ UNCHANGED img
    /\ Idle

\* Sequences of up to n + 1 colours.
ColorSeqs(n) == UNION { [1..k -> Colors] : k \in 0..(n + 1) }

AssignPalette ==
    /\ Calls < MaxOps
    /\ \E colors \in ColorSeqs(img.maxColors) :
          LET r == assignPalette(img, colors)
          IN  /\ img' = r.img
              /\ last' = Call("assignPalette", <<Calls + 1, colors>>, r.res, img)
    /\ Idle

\* Raw palettes a caller passes: of the right length, one entry short, one
\* entry long.
RawPalettes(n) == { [k \in 1..(4 * j) |-> 16 + k] : j \in { n - 1, n, n + 1 } }

SetPalette ==
    /\ Calls < MaxOps
    /\ \E newPalette \in RawPalettes(img.maxColors) :
          LET r == setPalette(img, newPalette)
          IN  /\ img' = r.img
              /\ last' = Call("setPalette", <<Calls + 1, newPalette>>, r.res, img)
    /\ Idle

SetPixelPaletteIndex ==
    /\ Calls < MaxOps
    /\ \E x \in -1..img.width, y \in -1..img.height, colorIndex \in -1..img.maxColors :
          LET r == setPixelPaletteIndex(img, x, y, colorIndex)
          IN  /\ img' = r.img
              /\ last' = Call("setPixelPaletteIndex", <<Calls + 1, x, y, colorIndex>>, r.res, img)
    /\ Idle

GetPixelPaletteIndex ==
    /\ Calls < MaxOps
    /\ \E x \in -1..img.width, y \in -1..img.height :
          last' = Call("getPixelPaletteIndex", <<Calls + 1, x, y>>,
                       getPixelPaletteIndex(img, x, y), img)
    /\ UNCHANGED img
    /\ Idle

\* The caller stores a byte into the array getPixels() returned; that array
\* is the image's pixel buffer.
WritePixels ==
    /\ Calls < MaxOps
    /\ \E i \in 0..(Len(img.pixels) - 1), v \in WrittenBytes :
          /\ img' = [img EXCEPT !.pixels = Put(getPixels(img), i, v)]
          /\ last' = Call("getPixels()[i] = v", <<Calls + 1, i, v>>, Ok(NoValue), img)
    /\ Idle

NextApi ==
    \/ SetPaletteColor
    \/ GetPaletteColor
    \/ AssignPalette
    \/ SetPalette
    \/ SetPixelPaletteIndex
    \/ GetPixelPaletteIndex
    \/ WritePixels

SpecApi == InitApi /\ [][NextApi]_vars

(***************************************************************************)
(* Claims about the image object, checked under SpecApi.                   *)
(***************************************************************************)
DefaultPalette(m) == PNGPaletteImage(0, 0, m).palette

\* C5: setPixelPaletteIndex(x, y, colorIndex) fails whenever x is outside
\* [0, width), y is outside [0, height) or colorIndex is outside
\* [0, maxColors), and a failing call leaves the whole image, its pixel buffer
\* included, as it was; with all three in range it succeeds and changes only
\* the cell y * width + x, which then holds colorIndex.
C5_SetPixelChecked ==
    last.op = "setPixelPaletteIndex" =>
        LET x == last.args[2]
            y == last.args[3]
            colorIndex == last.args[4]
            pre == last.pre
        IN  IF /\ x \in 0..(pre.width - 1)
               /\ y \in 0..(pre.height - 1)
               /\ colorIndex \in 0..(pre.maxColors - 1)
            THEN /\ last.res.kind = "ok"
                 /\ Len(img.pixels) = Len(pre.pixels)
                 /\ \A k \in 0..(Len(pre.pixels) - 1) :
                       At(img.pixels, k) =
                          IF k = (y * pre.width) + x THEN colorIndex ELSE At(pre.pixels, k)
                 /\ img.palette = pre.palette
            ELSE /\ last.res.kind = "err"
                 /\ img = pre

\* A call with an out-of-range colour index and in-range coordinates has
\* failed on an image whose buffer already held a non-zero pixel.
C5_Witness ==
    /\ last.op = "setPixelPaletteIndex"
    /\ last.res.kind = "err"
    /\ last.args[2] \in 0..(img.width - 1)
    /\ last.args[3] \in 0..(img.height - 1)
    /\ last.args[4] = img.maxColors
    /\ \E k \in 1..Len(img.pixels) : img.pixels[k] # 0

\* C6: in every state of an image that its public operations can reach,
\* writes through the values its getters returned included, every stored
\* pixel value lies in [0, maxColors) and the palette holds exactly maxColors
\* RGBA entries.
C6_StoredValuesInRange ==
    /\ \A k \in 1..Len(img.pixels) : img.pixels[k] \in 0..(img.maxColors - 1)
    /\ Len(img.palette) = 4 * img.maxColors

\* C7: assignPalette(colors) fails and leaves the palette unchanged when
\* colors.length > maxColors; otherwise it succeeds, entry i is colors[i] for
\* every i < colors.length, and every entry from colors.length on is unchanged.
C7_AssignPalette ==
    last.op = "assignPalette" =>
        LET colors == last.args[2]
            pre == last.pre
        IN  IF Len(colors) > pre.maxColors
            THEN /\ last.res.kind = "err"
                 /\ img = pre
            ELSE /\ last.res.kind = "ok"
                 /\ \A i \in 0..(pre.maxColors - 1) :
                       getPaletteColor(img, i) =
                          IF i < Len(colors) THEN Ok(colors[i + 1])
                          ELSE getPaletteColor(pre, i)
                 /\ Len(img.palette) = Len(pre.palette)
                 /\ img.pixels = pre.pixels

\* A list shorter than maxColors was assigned over a palette whose entries
\* past the list were not the default: they are still there.
C7_Witness ==
    /\ last.op = "assignPalette"
    /\ last.res.kind = "ok"
    /\ Len(last.args[2]) >= 1
    /\ Len(last.args[2]) < img.maxColors
    /\ \E i \in Len(last.args[2])..(img.maxColors - 1) :
          /\ getPaletteColor(img, i).value # RGBA(0, 0, 0, 255)
          /\ getPaletteColor(img, i) = getPaletteColor(last.pre, i)

\* C11: a write the caller makes to a value a public operation returned
\* (here the array getPixels() returned) never changes what
\* getPixelPaletteIndex and getPaletteColor return for the image.
C11_NoAliasing ==
    last.op = "getPixels()[i] = v" =>
        /\ \A x \in 0..(img.width - 1), y \in 0..(img.height - 1) :
              getPixelPaletteIndex(img, x, y) = getPixelPaletteIndex(last.pre, x, y)
        /\ \A i \in 0..(img.maxColors - 1) :
              getPaletteColor(img, i) = getPaletteColor(last.pre, i)

\* C17: setPaletteColor and getPaletteColor succeed exactly when
\* 0 <= index < maxColors; after a successful setPaletteColor(index, r, g, b,
\* a) getPaletteColor(index) returns {r, g, b, a} and every other entry and
\* every pixel is unchanged; a call with an out-of-range index fails and
\* changes nothing; getPaletteColor returns the stored entry.
C17_PaletteColorAccess ==
    /\ last.op = "setPaletteColor" =>
          LET index == last.args[2]
              c == last.args[3]
              pre == last.pre
          IN  IF index \in 0..(pre.maxColors - 1)
              THEN /\ last.res.kind = "ok"
                   /\ getPaletteColor(img, index) = Ok(c)
                   /\ \A j \in 0..(pre.maxColors - 1) :
                         j # index => getPaletteColor(img, j) = getPaletteColor(pre, j)
                   /\ Len(img.palette) = Len(pre.palette)
                   /\ img.pixels = pre.pixels
              ELSE /\ last.res.kind = "err"
                   /\ img = pre
    /\ last.op = "getPaletteColor" =>
          LET index == last.args[2]
          IN  /\ last.res.kind = "ok" <=> index \in 0..(img.maxColors - 1)
              /\ last.res.kind = "ok" =>
                    last.res.value = RGBA(At(img.palette, index * 4),
                                          At(img.palette, (index * 4) + 1),
                                          At(img.palette, (index * 4) + 2),
                                          At(img.palette, (index * 4) + 3))
              /\ img = last.pre

\* A colour was stored in entry 1 of a palette whose entry 0 had been set
\* before, and entry 0 is still what it was.
C17_Witness ==
    /\ last.op = "setPaletteColor"
    /\ last.res.kind = "ok"
    /\ last.args[1] = 2
    /\ last.args[2] = 1
    /\ getPaletteColor(last.pre, 0) = Ok(RGBA(255, 0, 0, 128))
    /\ getPaletteColor(img, 0) = Ok(RGBA(255, 0, 0, 128))
    /\ getPaletteColor(img, 1) = Ok(RGBA(7, 8, 9, 255))

(***************************************************************************)
(* SpecCodec: a caller builds an image through successful calls, encodes   *)
(* it and decodes the bytes.                                               *)
(***************************************************************************)
\* Palettes a caller assigns: none, one colour, or maxColors colours.
BuiltPalettes(m) ==
    { <<>>, <<RGBA(255, 0, 0, 128)>>,
      [i \in 1..m |-> RGBA(10 * i, 20 * i, 250 - i, (77 * i) % 256)] }

RECURSIVE paintLoop(_, _, _, _, _)
paintLoop(im, k, a, b, c) ==
    IF k >= im.width * im.height THEN im
    ELSE paintLoop(
            setPixelPaletteIndex(im, k % im.width, k \div im.width,
                ((a * (k % im.width)) + (b * (k \div im.width)) + c) % im.maxColors).img,
            k + 1, a, b, c)

\* The image after new PNGPaletteImage(w, h, m), assignPalette(colors) and
\* one setPixelPaletteIndex(x, y, (a*x + b*y + c) % m) per pixel.
Built(w, h, m, colors, a, b, c) ==
    paintLoop(assignPalette(PNGPaletteImage(w, h, m), colors).img, 0, a, b, c)

\* maxColors of the images built: small ones, and the constructor's default.
BuiltMaxColors == (1..MaxCol) \cup {256}

InitCodec ==
    /\ \E w \in 1..MaxDim, h \in 1..MaxDim, m \in BuiltMaxColors :
       \E colors \in BuiltPalettes(m) :
       \E a \in 0..1, b \in 0..1, c \in 0..(MaxCol - 1) :
          img = Built(w, h, m, colors, a, b, c)
    /\ last = NoCall
    /\ bytes = <<>>
    /\ result = NoResult
    /\ input = NoInput

\* A variant of the call that clears the pixel buffer it has encoded.
encodeCall_consuming(im) ==
    [res |-> encodeToPngBytes(im), img |-> [im EXCEPT !.pixels = Zeros(Len(im.pixels))]]

\* A call of img.encodeToPngBytes(): the bytes returned and the image after
\* the call. The method assigns to no field of this and stores only into
\* arrays it has created itself.
encodeCall(im) == [res |-> encodeToPngBytes(im), img |-> im]

Encode ==
    /\ last.op = "none"
    /\ bytes' = encodeCall(img).res
    /\ img' = encodeCall(img).img
    /\ last' = Call("encodeToPngBytes", <<>>, Ok(NoValue), img)
    /\ UNCHANGED <<result, input>>

\* A second call on the same image, nothing called in between; its output
\* is kept in input.
EncodeAgain ==
    /\ last.op = "encodeToPngBytes"
    /\ result.kind = "none"
    /\ input = NoInput
    /\ input' = <<encodeCall(img).res>>
    /\ img' = encodeCall(img).img
    /\ UNCHANGED <<last, bytes, result>>

Decode ==
    /\ last.op = "encodeToPngBytes"
    /\ result.kind = "none"
    /\ result' = fromPngBytes(bytes)
    /\ UNCHANGED <<img, last, bytes, input>>

\* A second call of fromPngBytes on the same bytes; its result is kept in
\* last.res.
DecodeAgain ==
    /\ last.op = "encodeToPngBytes"
    /\ result.kind # "none"
    /\ last' = Call("fromPngBytes", <<>>, fromPngBytes(bytes), last.pre)
    /\ UNCHANGED <<img, bytes, result, input>>

NextCodec == Encode \/ EncodeAgain \/ Decode \/ DecodeAgain

SpecCodec == InitCodec /\ [][NextCodec]_vars

(***************************************************************************)
(* Claims about the codec, checked under SpecCodec.                        *)
(***************************************************************************)
\* C1: decoding the bytes encodeToPngBytes produced for an image succeeds,
\* and the decoded image has the same width and height, the same palette
\* index at every (x, y) and the same (r, g, b, a) at every palette index in
\* [0, maxColors).
C1_RoundTrip ==
    (last.op = "encodeToPngBytes" /\ last.pre = img /\ result.kind # "none") =>
        /\ result.kind = "ok"
        /\ result.value.width = img.width
        /\ result.value.height = img.height
        /\ \A x \in 0..(img.width - 1), y \in 0..(img.height - 1) :
              getPixelPaletteIndex(result.value, x, y) = getPixelPaletteIndex(img, x, y)
        /\ \A i \in 0..(img.maxColors - 1) :
              getPaletteColor(result.value, i) = getPaletteColor(img, i)

\* A decoded image with more than one pixel value and a translucent entry.
C1_Witness ==
    /\ last.op = "encodeToPngBytes"
    /\ result.kind = "ok"
    /\ \E k \in 1..Len(img.pixels) : img.pixels[k] # img.pixels[1]
    /\ \E i \in 0..(img.maxColors - 1) : getPaletteColor(result.value, i).value.a = 128

\* The chunks of a buffer as its length fields lay them out from offset 8:
\* each chunk's type and payload.
RECURSIVE ChunkList(_, _)
ChunkList(b, pos) ==
    IF pos + 12 > Len(b) \/ pos + 12 + getUint32(b, pos) > Len(b) THEN <<>>
    ELSE << [type |-> subarray(b, pos + 4, pos + 8),
             data |-> subarray(b, pos + 8, pos + 8 + getUint32(b, pos)),
             pos |-> pos] >>
         \o ChunkList(b, pos + 12 + getUint32(b, pos))

\* The bytes of a buffer its chunks account for, signature included.
ChunkBytes(chunks) == IF chunks = <<>> THEN 8
                      ELSE chunks[Len(chunks)].pos + 12 + Len(chunks[Len(chunks)].data)

\* C10: the encoder's output is the signature, then exactly IHDR, PLTE,
\* tRNS, IDAT, IEND; the PLTE payload has maxColors * 3 bytes and the tRNS
\* payload maxColors bytes, entry i holding the palette's (r, g, b) and alpha,
\* which for a never-assigned entry are black and 255.
C10_ChunkSequence ==
    last.op = "encodeToPngBytes" =>
        LET chunks == ChunkList(bytes, 8)
        IN  /\ subarray(bytes, 0, 8) = Signature
            /\ [k \in 1..Len(chunks) |-> chunks[k].type] = <<IHDR, PLTE, tRNS, IDAT, IEND>>
            /\ ChunkBytes(chunks) = Len(bytes)
            /\ Len(chunks[2].data) = last.pre.maxColors * 3
            /\ Len(chunks[3].data) = last.pre.maxColors
            /\ \A i \in 0..(last.pre.maxColors - 1) :
                  getPaletteColor(last.pre, i).value =
                     RGBA(At(chunks[2].data, i * 3), At(chunks[2].data, (i * 3) + 1),
                          At(chunks[2].data, (i * 3) + 2), At(chunks[3].data, i))

\* An encoded image of maxColors 2 with a never-assigned palette entry.
C10_Witness ==
    /\ last.op = "encodeToPngBytes"
    /\ img.maxColors = 2
    /\ getPaletteColor(img, 0).value = RGBA(255, 0, 0, 128)
    /\ getPaletteColor(img, 1).value = RGBA(0, 0, 0, 255)
    /\ Len(bytes) > 8

FilterTags == 0..5

\* The filtered sample bytes of a row of w samples: constant, or alternating.
RowSamples(w) ==
    { [x \in 1..w |-> 77], [x \in 1..w |-> 200],
      [x \in 1..w |-> IF x % 2 = 1 THEN 77 ELSE 200],
      [x \in 1..w |-> IF x % 2 = 1 THEN 200 ELSE 77] }

\* Rows of the stream so far.
RowCount == Len(input.inflated) \div (input.width + 1)

InitFilter ==
    /\ \E w \in 1..MaxDim : input = [width |-> w, height |-> 0, inflated |-> <<>>]
    /\ img = NoImage
    /\ last = NoCall
    /\ bytes = <<>>
    /\ result = NoResult

\* One more row of the stream to decode.
AppendRow ==
    /\ result.kind = "none"
    /\ RowCount < MaxDim
    /\ \E t \in FilterTags, raw \in RowSamples(input.width) :
          input' = [input EXCEPT !.inflated = @ \o <<t>> \o raw]
    /\ UNCHANGED <<img, last, bytes, result>>

\* The image fromPngBytes hands to decodePngImageData.
FreshImage(w, h) == [PNGPaletteImage(w, h, 256) EXCEPT !.palette = parsePlte(<<>>)]

\* The stream is decoded for an image of as many rows as it has, of one row
\* less (the stream is longer than needed) or one more (it is too short).
Unfilter ==
    /\ result.kind = "none"
    /\ RowCount >= 1
    /\ \E h \in { RowCount - 1, RowCount, RowCount + 1 } \ {0} :
          /\ input' = [input EXCEPT !.height = h]
          /\ result' = decodePngImageData(FreshImage(input.width, h),
                                          << deflate(input.inflated) >>)
    /\ UNCHANGED <<img, last, bytes>>

NextFilter == AppendRow \/ Unfilter

SpecFilter == InitFilter /\ [][NextFilter]_vars

(***************************************************************************)
(* Claims about the scanline reconstruction, checked under SpecFilter.     *)
(***************************************************************************)
\* The tag of row y and the filtered byte at (x, y) of a stream.
TagOf(in, y) == At(in.inflated, y * (in.width + 1))

RawOf(in, x, y) == At(in.inflated, (y * (in.width + 1)) + 1 + x)

\* The decoded pixel at (x, y), 0 outside the image.
PixelOf(im, x, y) ==
    IF x < 0 \/ y < 0 THEN 0 ELSE getPixelPaletteIndex(im, x, y).value

\* C2: for a stream of at least height * (width + 1) bytes whose row tags are
\* all in 0..4, decoding succeeds and the pixel at (x, y) is, modulo 256, raw
\* for tag 0, raw + left for 1, raw + above for 2, raw + floor((left + above)
\* / 2) for 3 and raw + paeth(left, above, upperLeft) for 4, the neighbours
\* being the decoded pixels at (x-1, y), (x, y-1), (x-1, y-1), 0 outside.
C2_Reconstruction ==
    ( /\ result.kind # "none"
      /\ Len(input.inflated) >= input.height * (input.width + 1)
      /\ \A y \in 0..(input.height - 1) : TagOf(input, y) \in 0..4 ) =>
        /\ result.kind = "ok"
        /\ \A x \in 0..(input.width - 1), y \in 0..(input.height - 1) :
              LET raw == RawOf(input, x, y)
                  left == PixelOf(result.value, x - 1, y)
                  above == PixelOf(result.value, x, y - 1)
                  upperLeft == PixelOf(result.value, x - 1, y - 1)
                  tag == TagOf(input, y)
              IN  PixelOf(result.value, x, y) =
                     CASE tag = 0 -> raw
                       [] tag = 1 -> (raw + left) % 256
                       [] tag = 2 -> (raw + above) % 256
                       [] tag = 3 -> (raw + ((left + above) \div 2)) % 256
                       [] tag = 4 -> (raw + paethPredictor(left, above, upperLeft)) % 256

\* A decoded 2x2 image whose rows were filtered Average and Paeth, with a sum
\* that wrapped past 255 and an odd left + above.
C2_Witness ==
    /\ result.kind = "ok"
    /\ input.width = 2 /\ input.height = 2
    /\ TagOf(input, 0) = 3 /\ TagOf(input, 1) = 4
    /\ PixelOf(result.value, 1, 1) < RawOf(input, 1, 1)
    /\ (PixelOf(result.value, 0, 0) + PixelOf(result.value, 1, -1)) % 2 = 1

(***************************************************************************)
(* SpecQuant: fromRgbaBytes on RGBA buffers drawn from a bounded family:   *)
(* a ramp of distinct colours followed by a few more pixels.               *)
(***************************************************************************)
MaxTail == 2

\* Pixel i of a ramp: the colours of the repository's quantization tests
\* (step 1), or every second red value (step 2).
RampColor(step, i) ==
    IF step = 1 THEN RGBA(i % 256, i \div 256, 0, 255)
    ELSE RGBA((i % 128) * 2, i \div 128, 0, 255)

PixelBytes(c) == <<c.r, c.g, c.b, c.a>>

Ramp(step, n) ==
    [k \in 1..(4 * n) |-> PixelBytes(RampColor(step, (k - 1) \div 4))[((k - 1) % 4) + 1]]

RampLengths == { 0, 2, 256 }

\* Colours of the pixels after the ramp.
TailColors == { RGBA(1, 0, 0, 255), RGBA(2, 0, 0, 255), RGBA(9, 200, 3, 7) }

InitQuant ==
    /\ \E step \in 1..2, n \in RampLengths :
          input = [rgba |-> Ramp(step, n), ramp |-> n, width |-> 0, height |-> 0,
                   quantize |-> FALSE]
    /\ img = NoImage
    /\ last = NoCall
    /\ bytes = <<>>
    /\ result = NoResult

AppendPixel ==
    /\ result.kind = "none"
    /\ Len(input.rgba) < 4 * (input.ramp + MaxTail)
    /\ \E c \in TailColors : input' = [input EXCEPT !.rgba = @ \o PixelBytes(c)]
    /\ UNCHANGED <<img, last, bytes, result>>

\* The buffer is converted as an image of one row, of its own length or one
\* pixel more, with and without the quantize option.
Quantize ==
    /\ result.kind = "none"
    /\ \E quantize \in BOOLEAN, extra \in 0..1 :
          /\ extra = 1 => Len(input.rgba) = 4 * input.ramp
          /\ input' = [input EXCEPT !.width = (Len(input.rgba) \div 4) + extra,
                                    !.height = 1, !.quantize = quantize]
          /\ result' = fromRgbaBytes(input.rgba, (Len(input.rgba) \div 4) + extra, 1, quantize)
    /\ UNCHANGED <<img, last, bytes>>

NextQuant == AppendPixel \/ Quantize

SpecQuant == InitQuant /\ [][NextQuant]_vars

(***************************************************************************)
(* Claims about the quantizer, checked under SpecQuant.                    *)
(***************************************************************************)
\* Pixel i of an RGBA buffer.
ColorAt(rgba, i) ==
    RGBA(At(rgba, i * 4), At(rgba, (i * 4) + 1), At(rgba, (i * 4) + 2), At(rgba, (i * 4) + 3))

PixelCount(rgba) == Len(rgba) \div 4

DistinctColors(rgba) == { ColorAt(rgba, i) : i \in 0..(PixelCount(rgba) - 1) }

\* C8: on a buffer of length width * height * 4 with more than 256 distinct
\* RGBA values fromRgbaBytes fails when quantize is off and succeeds when
\* it is on; in every successful result each pixel's index is in [0, 256) and
\* is the index of a palette entry that was assigned a colour of the input.
C8_Quantization ==
    (result.kind # "none" /\ Len(input.rgba) = input.width * input.height * 4) =>
        LET distinct == DistinctColors(input.rgba)
            assigned == IF Cardinality(distinct) < 256 THEN Cardinality(distinct) ELSE 256
        IN  /\ Cardinality(distinct) > 256 =>
                 IF input.quantize THEN result.kind = "ok"
                 ELSE result.kind = "err" /\ result.error = "Image has too many unique colors"
            /\ result.kind = "ok" =>
                 /\ result.value.maxColors = 256
                 /\ Len(result.value.pixels) = PixelCount(input.rgba)
                 /\ \A k \in 1..Len(result.value.pixels) :
                       /\ result.value.pixels[k] \in 0..255
                       /\ result.value.pixels[k] < assigned
                       /\ getPaletteColor(result.value, result.value.pixels[k]).value
                             \in distinct

\* A quantized buffer of more than 256 distinct colours.
C8_Witness ==
    /\ result.kind = "ok"
    /\ input.quantize
    /\ Cardinality(DistinctColors(input.rgba)) > 256

\* The first pixel of each colour, and a colour's number in first-seen order.
FirstPixels(rgba) ==
    { i \in 0..(PixelCount(rgba) - 1) :
         \A j \in 0..(i - 1) : ColorAt(rgba, j) # ColorAt(rgba, i) }

FirstOf(rgba, firsts, i) == CHOOSE f \in firsts : ColorAt(rgba, f) = ColorAt(rgba, i)

RankOf(firsts, f) == Cardinality({ g \in firsts : g < f })

\* C9: scanning the pixels in row-major order, the k-th distinct RGBA value
\* (k from 0, k < 256) gets palette index k, palette entry k is that value,
\* and every pixel whose value is one of these first 256 gets that value's
\* index, also when it comes after the capacity was reached.
C9_FirstSeenOrder ==
    result.kind = "ok" =>
        LET firsts == FirstPixels(input.rgba)
        IN  \A i \in 0..(PixelCount(input.rgba) - 1) :
               LET k == RankOf(firsts, FirstOf(input.rgba, firsts, i))
               IN  k < 256 =>
                      /\ At(result.value.pixels, i) = k
                      /\ getPaletteColor(result.value, k) = Ok(ColorAt(input.rgba, i))

\* After 256 colours were assigned, a pixel of a new colour was mapped to its
\* nearest entry and a later pixel of an already indexed colour got its index.
C9_Witness ==
    /\ result.kind = "ok"
    /\ input.ramp = 256
    /\ PixelCount(input.rgba) = 258
    /\ ColorAt(input.rgba, 256) \notin { ColorAt(input.rgba, i) : i \in 0..255 }
    /\ ColorAt(input.rgba, 257) = ColorAt(input.rgba, 1)
    /\ At(result.value.pixels, 257) = 1

\* The squared distance of two colours.
ColorDistance(c, p) ==
    ((c.r - p.r) * (c.r - p.r)) + ((c.g - p.g) * (c.g - p.g))
    + ((c.b - p.b) * (c.b - p.b)) + ((c.a - p.a) * (c.a - p.a))

\* C19: with quantize on, a pixel whose colour is new when 256 colours are
\* assigned gets the lowest index j that minimises the squared distance over
\* the 256 assigned entries; those entries stay the first 256 distinct
\* colours, so the pixel changes neither the palette nor the mapping.
C19_NearestColour ==
    result.kind = "ok" =>
        LET firsts == FirstPixels(input.rgba)
        IN  \A i \in 0..(PixelCount(input.rgba) - 1) :
               LET f == FirstOf(input.rgba, firsts, i)
                   k == RankOf(firsts, f)
                   c == ColorAt(input.rgba, i)
                   j == At(result.value.pixels, i)
                   entry(n) == getPaletteColor(result.value, n).value
               IN  IF k < 256
                   THEN i = f => entry(k) = c
                   ELSE /\ input.quantize
                        /\ j \in 0..255
                        /\ \A n \in 0..255 :
                              /\ ColorDistance(c, entry(j)) <= ColorDistance(c, entry(n))
                              /\ n < j => ColorDistance(c, entry(j)) < ColorDistance(c, entry(n))

\* After the 256 colours of the ramp of even reds, a pixel of red 1 is at
\* distance 1 from entry 0 (red 0) and from entry 1 (red 2): it got index 0.
C19_Witness ==
    /\ result.kind = "ok"
    /\ input.ramp = 256
    /\ PixelCount(input.rgba) > 256
    /\ ColorAt(input.rgba, 1) = RGBA(2, 0, 0, 255)
    /\ ColorAt(input.rgba, 256) = RGBA(1, 0, 0, 255)
    /\ At(result.value.pixels, 256) = 0
    /\ getPaletteColor(result.value, 1) = Ok(RGBA(2, 0, 0, 255))

(***************************************************************************)
(* SpecStream: fromPngBytes on byte streams put together chunk by chunk    *)
(* after the signature, each chunk well formed (length, type, payload and  *)
(* CRC), in any order, and on such streams with one payload byte changed.  *)
(***************************************************************************)
MaxChunks == 4

\* A chunk type outside the five the walk knows.
teXt == <<116, 69, 88, 116>>

\* The header of a 2 x 1 image, and an IHDR chunk without payload.
StreamHeader == U32Bytes(2) \o U32Bytes(1) \o <<8, 3, 0, 0, 0>>

\* The header of an image of width 0.
EmptyHeader == U32Bytes(0) \o U32Bytes(1) \o <<8, 3, 0, 0, 0>>

\* Type and payload of the chunks a stream is made of.
ChunkMenu ==
    { <<IHDR, StreamHeader>>,
      <<IHDR, EmptyHeader>>,
      <<IHDR, <<>>>>,
      <<PLTE, <<10, 20, 30, 40, 50, 60>>>>,
      <<tRNS, <<7>>>>,
      <<IDAT, deflate(<<0, 1, 0>>)>>,
      <<IEND, <<>>>>,
      <<teXt, <<65>>>> }

NoTamper == [type |-> <<>>, at |-> -1]

\* How many bytes of its last chunk a cut stream keeps: seven (less than a
\* length and a type), eight, or all but the last.
KeptSizes(total) == { 7, 8, total - 1 }

InitStream ==
    /\ bytes = Signature
    /\ input = [chunks |-> <<>>, tampered |-> NoTamper, cut |-> 0, junk |-> <<>>]
    /\ img = NoImage
    /\ last = NoCall
    /\ result = NoResult

AppendChunk ==
    /\ result.kind = "none"
    /\ input.tampered = NoTamper
    /\ input.cut = 0
    /\ input.junk = <<>>
    /\ Len(input.chunks) < MaxChunks
    /\ \E c \in ChunkMenu :
          /\ bytes' = concat(<<bytes, createChunk(c[1], c[2])>>)
          /\ input' = [input EXCEPT !.chunks =
                          Append(@, [type |-> c[1], at |-> Len(bytes), length |-> Len(c[2])])]
    /\ UNCHANGED <<img, last, result>>

\* The chunks the walk visits: those up to the first IEND.
Walked(chunks) ==
    { i \in 1..Len(chunks) : \A j \in 1..(i - 1) : chunks[j].type # IEND }

\* One byte of the payload of a walked chunk of a stream that decodes is
\* changed, in its lowest bit or in all its bits; its stored CRC is kept.
Tamper ==
    /\ result.kind = "none"
    /\ input.tampered = NoTamper
    /\ input.cut = 0
    /\ input.junk = <<>>
    /\ fromPngBytes(bytes).kind = "ok"
    /\ \E i \in Walked(input.chunks) :
          \E o \in 0..(input.chunks[i].length - 1), flip \in {1, 255} :
             LET at == input.chunks[i].at + 8 + o
                 old == At(bytes, at)
                 new == IF flip = 1 THEN (IF old % 2 = 0 THEN old + 1 ELSE old - 1)
                        ELSE 255 - old
             IN  /\ bytes' = Put(bytes, at, new)
                 /\ input' = [input EXCEPT !.tampered = [type |-> input.chunks[i].type, at |-> at]]
    /\ UNCHANGED <<img, last, result>>

\* The buffer ends inside its last chunk: input.cut bytes are missing.
Truncate ==
    /\ result.kind = "none"
    /\ input.tampered = NoTamper
    /\ input.cut = 0
    /\ input.junk = <<>>
    /\ Len(input.chunks) > 0
    /\ LET lastChunk == input.chunks[Len(input.chunks)]
       IN  \E kept \in KeptSizes(12 + lastChunk.length) :
              /\ bytes' = subarray(bytes, 0, lastChunk.at + kept)
              /\ input' = [input EXCEPT !.cut = (12 + lastChunk.length) - kept]
    /\ UNCHANGED <<img, last, result>>

\* A PLTE chunk whose stored CRC is wrong in its last byte.
BadCrcChunk ==
    LET chunk == createChunk(PLTE, <<1, 2, 3>>)
    IN  Put(chunk, Len(chunk) - 1, 255 - chunk[Len(chunk)])

\* What may follow the IEND of a stream: a chunk with a wrong CRC, another
\* PLTE, tRNS or IDAT chunk, the first seven bytes of a chunk.
JunkTails ==
    { BadCrcChunk,
      createChunk(PLTE, <<1, 2, 3>>),
      createChunk(tRNS, <<0>>),
      createChunk(IDAT, deflate(<<0, 0, 0>>)),
      subarray(createChunk(IDAT, <<>>), 0, 7) }

\* Bytes follow a stream that has an IEND.
AppendJunk ==
    /\ result.kind = "none"
    /\ input.tampered = NoTamper
    /\ input.cut = 0
    /\ input.junk = <<>>
    /\ \E i \in 1..Len(input.chunks) : input.chunks[i].type = IEND
    /\ \E tail \in JunkTails :
          /\ bytes' = concat(<<bytes, tail>>)
          /\ input' = [input EXCEPT !.junk = tail]
    /\ UNCHANGED <<img, last, result>>

DecodeStream ==
    /\ result.kind = "none"
    /\ result' = fromPngBytes(bytes)
    /\ UNCHANGED <<img, last, bytes, input>>

NextStream == AppendChunk \/ Tamper \/ Truncate \/ AppendJunk \/ DecodeStream

SpecStream == InitStream /\ [][NextStream]_vars

(***************************************************************************)
(* Claims about the chunk walk, checked under SpecStream.                  *)
(***************************************************************************)
\* C3: after one byte of the payload of a chunk of a stream that decodes was
\* changed and its stored CRC kept, fromPngBytes fails with the CRC mismatch
\* error naming that chunk's type; it returns no image.
C3_CrcTampering ==
    (input.tampered # NoTamper /\ result.kind # "none") =>
        /\ result.kind = "err"
        /\ result.error = "CRC mismatch in chunk"
        /\ result.ctx = input.tampered.type

\* A stream with a changed IDAT byte and one with a changed PLTE byte were
\* decoded.
C3_Witness ==
    /\ input.tampered # NoTamper
    /\ input.tampered.type \in {IDAT, PLTE}
    /\ result.kind = "err"
    /\ result.error = "CRC mismatch in chunk"

\* C4: for every input buffer fromPngBytes returns ok(image) or err(error)
\* and throws nothing, also for a stream whose chunks have valid CRCs and
\* whose IHDR payload is shorter than 13 bytes.
C4_NeverThrows ==
    result.kind \in {"none", "ok", "err"}

\* The walk of a stream gets as far as the stream's chunk i: no chunk before
\* it is IEND and none of them ends the walk with an error.
WalkReaches(i) ==
    /\ i \in 1..Len(input.chunks)
    /\ \A j \in 1..(i - 1) : input.chunks[j].type # IEND
    /\ LET before == parsePngChunks(subarray(bytes, 0, input.chunks[i].at))
       IN  \/ before.kind = "ok"
           \/ before.kind = "err" /\ before.error \in {"Missing IHDR", "Missing palette"}

WalkReachesLast == WalkReaches(Len(input.chunks))

\* C12: a chunk the walk reaches before IEND and that extends past the end
\* of the buffer makes fromPngBytes fail with the error that names the chunk
\* as exceeding the file's bounds; bytes left over at the end of the buffer
\* are not silently dropped.
C12_TruncatedChunk ==
    (input.cut > 0 /\ result.kind # "none" /\ WalkReachesLast) =>
        /\ result.kind = "err"
        /\ result.error = "Chunk exceeds file bounds"

\* A stream as it was put together, no byte changed and none cut off.
Intact == input.tampered = NoTamper /\ input.cut = 0 /\ input.junk = <<>>

\* The payload of the stream's chunk i.
PayloadOf(i) ==
    subarray(bytes, input.chunks[i].at + 8, input.chunks[i].at + 8 + input.chunks[i].length)

\* The chunks of one type among those the walk visits.
WalkedOf(type) == { i \in Walked(input.chunks) : input.chunks[i].type = type }

Highest(S) == CHOOSE i \in S : \A j \in S : j <= i

\* C13: a tRNS chunk the walk meets before any PLTE chunk makes fromPngBytes
\* fail with "tRNS before PLTE"; in a decoded image the alpha of palette entry
\* i is byte i of the last tRNS after the last PLTE whose payload is longer
\* than i, every other alpha is the 255 the PLTE gave it, and r, g, b are
\* those of the PLTE payload.
C13_ChunkOrdering ==
    (Intact /\ result.kind # "none") =>
        /\ (\E t \in WalkedOf(tRNS) :
               /\ WalkReaches(t)
               /\ \A q \in WalkedOf(PLTE) : q > t)
           => (result.kind = "err" /\ result.error = "tRNS before PLTE")
        /\ result.kind = "ok" =>
              LET q == Highest(WalkedOf(PLTE))
                  plte == PayloadOf(q)
              IN  \A i \in 0..(PaletteSize - 1) :
                     LET covering == { t \in WalkedOf(tRNS) :
                                          t > q /\ i < input.chunks[t].length }
                         alpha == IF covering = {} THEN 255
                                  ELSE At(PayloadOf(Highest(covering)), i)
                         entry == getPaletteColor(result.value, i).value
                     IN  /\ entry.a = alpha
                         /\ (i * 3) + 2 < Len(plte) =>
                               /\ entry.r = At(plte, i * 3)
                               /\ entry.g = At(plte, (i * 3) + 1)
                               /\ entry.b = At(plte, (i * 3) + 2)

\* A decoded stream with a tRNS after its PLTE: the alpha of entry 0 is the
\* payload's byte, entry 1 kept its alpha and its colour.
C13_Witness ==
    /\ Intact
    /\ result.kind = "ok"
    /\ \E t \in WalkedOf(tRNS) : \E q \in WalkedOf(PLTE) : q < t
    /\ getPaletteColor(result.value, 0) = Ok(RGBA(10, 20, 30, 7))
    /\ getPaletteColor(result.value, 1) = Ok(RGBA(40, 50, 60, 255))

\* The IHDR chunks the walk visits that carry a whole header, and those of
\* them that declare a width and a height above 0.
WholeHeaders == { i \in WalkedOf(IHDR) : input.chunks[i].length = 13 }

SizedHeaders ==
    { i \in WholeHeaders :
         getUint32(PayloadOf(i), 0) > 0 /\ getUint32(PayloadOf(i), 4) > 0 }

\* Every check made per chunk passes: the stream is intact, every IHDR is
\* whole, and no tRNS comes before the first PLTE.
ChunkChecksPass ==
    /\ Intact
    /\ WalkedOf(IHDR) = WholeHeaders
    /\ \A t \in WalkedOf(tRNS) : \E q \in WalkedOf(PLTE) : q < t

\* C14: a stream that passes the per-chunk checks and in which the last IHDR
\* of the walk did not set a width and a height above 0 (or there was none),
\* or in which the walk met no PLTE, makes fromPngBytes fail with "Missing
\* IHDR" or "Missing palette"; no image is returned with width 0, height 0
\* or without a palette.
C14_MissingChunks ==
    /\ (ChunkChecksPass /\ result.kind # "none") =>
          IF WholeHeaders = {} \/ Highest(WholeHeaders) \notin SizedHeaders
          THEN result.kind = "err" /\ result.error = "Missing IHDR"
          ELSE IF WalkedOf(PLTE) = {}
          THEN result.kind = "err" /\ result.error = "Missing palette"
          ELSE result.kind = "err" => result.error \notin {"Missing IHDR", "Missing palette"}
    /\ result.kind = "ok" =>
          /\ result.value.width > 0
          /\ result.value.height > 0
          /\ Len(result.value.palette) = PaletteSize * 4

\* A stream with a header of width 0 and a palette, and no other header, was
\* refused.
C14_Witness ==
    /\ Intact
    /\ result.kind = "err"
    /\ result.error = "Missing IHDR"
    /\ WholeHeaders # {}
    /\ SizedHeaders = {}
    /\ WalkedOf(PLTE) # {}

\* The first IEND chunk of the stream, and the stream up to its end.
FirstEnd == CHOOSE e \in WalkedOf(IEND) : TRUE

UpToEnd ==
    subarray(bytes, 0, input.chunks[FirstEnd].at + 12 + input.chunks[FirstEnd].length)

\* C20: once the walk has reached an IEND chunk no byte after it influences
\* the result: when the stream up to and including its first IEND decodes
\* successfully, the whole stream, whatever follows the IEND (further chunks,
\* a chunk cut short, a chunk with a wrong CRC), decodes to the same image.
C20_EndOfWalk ==
    ( /\ result.kind # "none"
      /\ input.tampered = NoTamper
      /\ WalkedOf(IEND) # {}
      /\ Len(UpToEnd) <= Len(bytes)
      /\ fromPngBytes(UpToEnd).kind = "ok" ) =>
        result = fromPngBytes(UpToEnd)

\* A decoded stream in which another PLTE chunk follows the IEND: entry 0 of
\* the palette is that of the PLTE before the IEND.
C20_Witness ==
    /\ result.kind = "ok"
    /\ input.tampered = NoTamper
    /\ WalkedOf(IEND) # {}
    /\ input.junk = createChunk(PLTE, <<1, 2, 3>>)
    /\ getPaletteColor(result.value, 0).value.r = 10

(***************************************************************************)
(* SpecPlte: fromPngBytes on streams IHDR, PLTE, IDAT, IEND whose PLTE     *)
(* payload is put together byte by byte, of any length up to MaxPlte.      *)
(***************************************************************************)
MaxPlte == 4

\* Bytes of a PLTE payload.
PlteBytes == { 0, 10, 200 }

\* A stream of a 2 x 1 image with the given PLTE payload.
PlteStream(payload) ==
    concat(<< Signature,
              createChunk(IHDR, StreamHeader),
              createChunk(PLTE, payload),
              createChunk(IDAT, deflate(<<0, 1, 0>>)),
              createChunk(IEND, <<>>) >>)

InitPlte ==
    /\ input = [payload |-> <<>>]
    /\ bytes = <<>>
    /\ img = NoImage
    /\ last = NoCall
    /\ result = NoResult

AppendPlteByte ==
    /\ result.kind = "none"
    /\ Len(input.payload) < MaxPlte
    /\ \E v \in PlteBytes : input' = [input EXCEPT !.payload = Append(@, v)]
    /\ UNCHANGED <<img, last, bytes, result>>

DecodePlte ==
    /\ result.kind = "none"
    /\ bytes' = PlteStream(input.payload)
    /\ result' = fromPngBytes(PlteStream(input.payload))
    /\ UNCHANGED <<img, last, input>>

NextPlte == AppendPlteByte \/ DecodePlte

SpecPlte == InitPlte /\ [][NextPlte]_vars

BitDepths == { 1, 2, 4, 8, 16 }

ColorTypes == { 0, 2, 3, 4, 6 }

\* A stream whose IHDR declares the given fields, with a two-colour PLTE and
\* an IDAT of height rows of width zero pixels.
HeaderStream(width, height, bitDepth, colorType) ==
    concat(<< Signature,
              createChunk(IHDR, U32Bytes(width) \o U32Bytes(height)
                                   \o <<bitDepth, colorType, 0, 0, 0>>),
              createChunk(PLTE, <<10, 20, 30, 40, 50, 60>>),
              createChunk(IDAT, deflate(Zeros(height * (width + 1)))),
              createChunk(IEND, <<>>) >>)

InitHeader ==
    /\ \E width \in 0..MaxDim, height \in 0..MaxDim,
          bitDepth \in BitDepths, colorType \in ColorTypes :
          input = [width |-> width, height |-> height,
                   bitDepth |-> bitDepth, colorType |-> colorType]
    /\ bytes = <<>>
    /\ img = NoImage
    /\ last = NoCall
    /\ result = NoResult

DecodeHeader ==
    /\ result.kind = "none"
    /\ bytes' = HeaderStream(input.width, input.height, input.bitDepth, input.colorType)
    /\ result' = fromPngBytes(HeaderStream(input.width, input.height,
                                           input.bitDepth, input.colorType))
    /\ UNCHANGED <<img, last, input>>

NextHeader == DecodeHeader

SpecHeader == InitHeader /\ [][NextHeader]_vars

(***************************************************************************)
(* Claims about the IHDR chunk, checked under SpecHeader.                  *)
(***************************************************************************)
\* C16: fromPngBytes fails with the unsupported bit depth error for every
\* IHDR whose bit depth is not 8, and with the colour type error for every
\* IHDR of bit depth 8 whose colour type is not 3; it returns an image only
\* when the IHDR declares bit depth 8, colour type 3 and a width and a height
\* above 0, and the image then has that width and height.
C16_IhdrValidation ==
    result.kind # "none" =>
        IF input.bitDepth # 8
        THEN /\ result.kind = "err"
             /\ result.error = "Unsupported bit depth"
             /\ result.ctx = <<input.bitDepth>>
        ELSE IF input.colorType # 3
        THEN /\ result.kind = "err"
             /\ result.error = "Only indexed color (3) is supported."
        ELSE IF input.width = 0 \/ input.height = 0
        THEN result.kind = "err"
        ELSE /\ result.kind = "ok"
             /\ result.value.width = input.width
             /\ result.value.height = input.height

\* A header of bit depth 16 and colour type 6 was refused for its bit depth.
C16_Witness ==
    /\ result.kind = "err"
    /\ result.error = "Unsupported bit depth"
    /\ input.bitDepth = 16
    /\ input.colorType = 6
    /\ input.width > 0
    /\ input.height > 0

(***************************************************************************)
(* SpecPaeth: paethPredictor on every triple of bytes. A state holds left  *)
(* and above; the step computes the predictor for every upperLeft.         *)
(***************************************************************************)
InitPaeth ==
    /\ \E left \in Byte, above \in Byte : input = [left |-> left, above |-> above]
    /\ bytes = <<>>
    /\ img = NoImage
    /\ last = NoCall
    /\ result = NoResult

\* bytes[upperLeft + 1] is paethPredictor(left, above, upperLeft).
Predict ==
    /\ result.kind = "none"
    /\ bytes' = [k \in 1..256 |-> paethPredictor(input.left, input.above, k - 1)]
    /\ result' = Ok(NoValue)
    /\ UNCHANGED <<img, last, input>>

NextPaeth == Predict

SpecPaeth == InitPaeth /\ [][NextPaeth]_vars

(***************************************************************************)
(* Claims about the Paeth predictor, checked under SpecPaeth.              *)
(***************************************************************************)
Distance(p, v) == IF p < v THEN v - p ELSE p - v

\* C18: for all left, above, upperLeft in 0..255, with p = left + above -
\* upperLeft, paethPredictor returns left if |p - left| <= |p - above| and
\* |p - left| <= |p - upperLeft|, otherwise above if |p - above| <= |p -
\* upperLeft|, otherwise upperLeft; the result is one of the three arguments
\* and no other argument is strictly nearer to p.
C18_Paeth ==
    result.kind = "ok" =>
        \A upperLeft \in Byte :
           LET left == input.left
               above == input.above
               p == (left + above) - upperLeft
               r == bytes[upperLeft + 1]
           IN  /\ r \in {left, above, upperLeft}
               /\ \A v \in {left, above, upperLeft} : Distance(p, r) <= Distance(p, v)
               /\ r = IF /\ Distance(p, left) <= Distance(p, above)
                         /\ Distance(p, left) <= Distance(p, upperLeft)
                      THEN left
                      ELSE IF Distance(p, above) <= Distance(p, upperLeft)
                      THEN above
                      ELSE upperLeft

\* The predictor was computed for left 10 and above 13: for upperLeft 12
\* left and upperLeft are equally near and left is returned, for upperLeft 11
\* above and upperLeft are equally near and above is returned.
C18_Witness ==
    /\ result.kind = "ok"
    /\ input.left = 10
    /\ input.above = 13
    /\ bytes[12 + 1] = 10
    /\ bytes[11 + 1] = 13

(***************************************************************************)
(* SpecPalette: fromPngBytes on streams IHDR, palette chunks, IDAT, IEND   *)
(* whose palette chunks are up to MaxPaletteChunks PLTE and tRNS chunks in *)
(* any order, of two payloads each.                                        *)
(***************************************************************************)
MaxPaletteChunks == 3

\* Type and payload of the palette chunks.
PaletteMenu ==
    { <<PLTE, <<10, 20, 30, 40, 50, 60>>>>,
      <<PLTE, <<1, 2, 3>>>>,
      <<tRNS, <<7>>>>,
      <<tRNS, <<9, 8>>>> }

RECURSIVE ChunksOf(_)
ChunksOf(chunks) ==
    IF chunks = <<>> THEN <<>>
    ELSE createChunk(chunks[1][1], chunks[1][2]) \o ChunksOf(Tail(chunks))

\* A stream of a 2 x 1 image with the given palette chunks.
PaletteStream(chunks) ==
    concat(<< Signature,
              createChunk(IHDR, StreamHeader),
              ChunksOf(chunks),
              createChunk(IDAT, deflate(<<0, 1, 0>>)),
              createChunk(IEND, <<>>) >>)

InitPalette ==
    /\ input = [chunks |-> <<>>]
    /\ bytes = <<>>
    /\ img = NoImage
    /\ last = NoCall
    /\ result = NoResult

AppendPaletteChunk ==
    /\ result.kind = "none"
    /\ Len(input.chunks) < MaxPaletteChunks
    /\ \E c \in PaletteMenu : input' = [input EXCEPT !.chunks = Append(@, c)]
    /\ UNCHANGED <<img, last, bytes, result>>

DecodePalette ==
    /\ result.kind = "none"
    /\ bytes' = PaletteStream(input.chunks)
    /\ result' = fromPngBytes(PaletteStream(input.chunks))
    /\ UNCHANGED <<img, last, input>>

NextPalette == AppendPaletteChunk \/ DecodePalette

SpecPalette == InitPalette /\ [][NextPalette]_vars

(***************************************************************************)
(* Claims about repeated palette chunks, checked under SpecPalette.        *)
(***************************************************************************)
\* The places of the chunks of one type among the palette chunks.
PlacesOf(type) == { i \in 1..Len(input.chunks) : input.chunks[i][1] = type }

\* C22: every PLTE chunk replaces the whole palette table built so far, the
\* alphas an earlier tRNS wrote included: the decoded palette is that of the
\* last PLTE (r, g, b of its payload, black beyond it) with the alphas of the
\* tRNS chunks that follow that PLTE, and 255 wherever none of them covers
\* the entry, whatever PLTE and tRNS chunks came before the last PLTE.
C22_RepeatedPlte ==
    result.kind = "ok" =>
        /\ PlacesOf(PLTE) # {}
        /\ LET q == Highest(PlacesOf(PLTE))
               plte == input.chunks[q][2]
           IN  \A i \in 0..(PaletteSize - 1) :
                  LET covering == { t \in PlacesOf(tRNS) :
                                       t > q /\ i < Len(input.chunks[t][2]) }
                      alpha == IF covering = {} THEN 255
                               ELSE At(input.chunks[Highest(covering)][2], i)
                  IN  getPaletteColor(result.value, i).value =
                         IF i < Len(plte) \div 3
                         THEN RGBA(At(plte, i * 3), At(plte, (i * 3) + 1),
                                   At(plte, (i * 3) + 2), alpha)
                         ELSE RGBA(0, 0, 0, alpha)

\* A decoded stream with a PLTE of two colours, a tRNS of two alphas and a
\* PLTE of one colour: entry 0 is the last PLTE's colour, entry 1 is black,
\* and both are opaque again.
C22_Witness ==
    /\ result.kind = "ok"
    /\ input.chunks = << <<PLTE, <<10, 20, 30, 40, 50, 60>>>>,
                         <<tRNS, <<9, 8>>>>,
                         <<PLTE, <<1, 2, 3>>>> >>
    /\ getPaletteColor(result.value, 0) = Ok(RGBA(1, 2, 3, 255))
    /\ getPaletteColor(result.value, 1) = Ok(RGBA(0, 0, 0, 255))

====
